---------------------------- MODULE Spec2Model ----------------------------
(***************************************************************************)
(* Model of mini_app: the settings loader (settings.py), the config        *)
(* adapter (config.py) and the connection lifespan and HTTP handlers       *)
(* (main.py).                                                              *)
(*                                                                         *)
(* The environment maps a field's name to its text (pydantic-settings      *)
(* matches the variable's name without regard to case; the .env file is    *)
(* taken as part of the environment).                                      *)
(* Text read from the environment is a sequence of one-character strings,  *)
(* so that str.upper() and int() are computed character by character.      *)
(* Python integers are unbounded: they are kept as a sign and a            *)
(* little-endian sequence of base-2^15 digits.                             *)
(***************************************************************************)
EXTENDS Integers, Sequences, FiniteSets, TLC

VARIABLES
    env,            \* os.environ: a function from variable names to text
    settingsCache,  \* lru_cache of get_settings: <<>> or <<settings>>
    envReads,       \* how many times MiniAppSettings() read the environment
    got,            \* the distinct values get_settings has returned
    calls,          \* how many get_settings calls have returned a value
    stale,          \* how many of them while the environment said otherwise
    envChanges,     \* how many times the environment was changed
    conn,           \* the storage engine's handle
    pc,             \* where the process is
    accepting,      \* the HTTP layer accepts new requests
    inflight,       \* requests accepted and not yet handled
    responses,      \* the responses sent, oldest first
    log,            \* the lines printed
    raised,         \* the exception that left the lifespan, or "none"
    setupArgs,      \* the keyword arguments of each Connection.setup call
    closeCalls,     \* how many times Connection.close was called
    faults,         \* the engine outcomes met by setup and close
    config          \* what get_dbzero_config last returned, <<>> before

vars == <<env, settingsCache, envReads, got, calls, stale, envChanges, conn, pc,
          accepting, inflight, responses, log, raised, setupArgs,
          closeCalls, faults, config>>

----------------------------------------------------------------------------
(* Bounds of the model *)

MaxRequests == 2

MaxInflight == 2

MaxEnvChanges == 1

MaxLen == 3

----------------------------------------------------------------------------
(* Text *)

LowerChars == <<"a","b","c","d","e","f","g","h","i","j","k","l","m",
                "n","o","p","q","r","s","t","u","v","w","x","y","z">>

UpperChars == <<"A","B","C","D","E","F","G","H","I","J","K","L","M",
                "N","O","P","Q","R","S","T","U","V","W","X","Y","Z">>

Digits == <<"0","1","2","3","4","5","6","7","8","9">>

UpperChar(c) ==
    IF \E i \in 1..Len(LowerChars) : LowerChars[i] = c
    THEN UpperChars[CHOOSE i \in 1..Len(LowerChars) : LowerChars[i] = c]
    ELSE c

LowerChar(c) ==
    IF \E i \in 1..Len(UpperChars) : UpperChars[i] = c
    THEN LowerChars[CHOOSE i \in 1..Len(UpperChars) : UpperChars[i] = c]
    ELSE c

\* str.upper()
Upper(s) == [i \in 1..Len(s) |-> UpperChar(s[i])]

\* str.lower()
Lower(s) == [i \in 1..Len(s) |-> LowerChar(s[i])]

RECURSIVE Join(_)
\* the text as one string
Join(s) == IF s = <<>> THEN "" ELSE Head(s) \o Join(Tail(s))

----------------------------------------------------------------------------
(* Python integers *)

\* one digit of a Python integer holds 15 bits
Base == 2 ^ 15

Zero == [neg |-> FALSE, mag |-> <<>>]

\* a sign and a magnitude; zero has no sign
Signed(neg, m) == [neg |-> neg /\ m # <<>>, mag |-> m]

\* a small non-negative machine integer as a Python int
RECURSIVE MagOf(_)
MagOf(n) == IF n = 0 THEN <<>> ELSE <<n % Base>> \o MagOf(n \div Base)

IntOf(n) == [neg |-> FALSE, mag |-> MagOf(n)]

RECURSIVE Strip(_)
\* no leading zero digit
Strip(m) ==
    IF m = <<>> THEN <<>>
    ELSE IF m[Len(m)] = 0 THEN Strip(SubSeq(m, 1, Len(m) - 1))
    ELSE m

RECURSIVE MulSmall(_, _, _)
\* m * k + carry, for a machine integer k < Base
MulSmall(m, k, carry) ==
    IF m = <<>> THEN MagOf(carry)
    ELSE LET t == Head(m) * k + carry
         IN  <<t % Base>> \o MulSmall(Tail(m), k, t \div Base)

RECURSIVE AddMag(_, _, _)
AddMag(a, b, carry) ==
    IF a = <<>> /\ b = <<>> THEN MagOf(carry)
    ELSE LET x == IF a = <<>> THEN 0 ELSE Head(a)
             y == IF b = <<>> THEN 0 ELSE Head(b)
             t == x + y + carry
         IN  <<t % Base>> \o
             AddMag(IF a = <<>> THEN <<>> ELSE Tail(a),
                    IF b = <<>> THEN <<>> ELSE Tail(b), t \div Base)

RECURSIVE MulMag(_, _)
\* schoolbook product of two magnitudes
MulMag(a, b) ==
    IF b = <<>> THEN <<>>
    ELSE LET rest == MulMag(a, Tail(b))
         IN  Strip(AddMag(MulSmall(a, Head(b), 0),
                          IF rest = <<>> THEN <<>> ELSE <<0>> \o rest, 0))

Mul(a, b) == Signed(a.neg # b.neg, MulMag(a.mag, b.mag))

\* 2^30 = Base * Base
TwoTo30 == [neg |-> FALSE, mag |-> <<0, 0, 1>>]

RECURSIVE DivSmall(_, _, _)
\* the digits of m \div k, most significant first, given the running remainder
DivSmall(m, k, rem) ==
    IF m = <<>> THEN <<>>
    ELSE LET t == rem * Base + m[Len(m)]
         IN  DivSmall(SubSeq(m, 1, Len(m) - 1), k, t % k) \o <<t \div k>>

RECURSIVE ModSmall(_, _, _)
ModSmall(m, k, rem) ==
    IF m = <<>> THEN rem
    ELSE ModSmall(SubSeq(m, 1, Len(m) - 1), k, (rem * Base + m[Len(m)]) % k)

RECURSIVE DecimalMag(_)
\* the decimal digits of a magnitude, most significant first
DecimalMag(m) ==
    IF m = <<>> THEN <<>>
    ELSE DecimalMag(Strip(DivSmall(m, 10, 0))) \o <<Digits[ModSmall(m, 10, 0) + 1]>>

\* str(n)
Decimal(n) ==
    IF n.mag = <<>> THEN "0"
    ELSE (IF n.neg THEN "-" ELSE "") \o Join(DecimalMag(n.mag))

\* n << 30 in a 32-bit unsigned register: the bits above bit 31 are lost
Shl30Wrap32(n) ==
    IF n.mag = <<>> THEN Zero
    ELSE Signed(n.neg, Strip(<<0, 0, (n.mag[1] % 4)>>))

\* n << 30 (int.__lshift__): exact, the digits move up by two places
Shl30(n) ==
    IF n.mag = <<>> THEN Zero
    ELSE [neg |-> n.neg, mag |-> <<0, 0>> \o n.mag]

\* n >> 30 (int.__rshift__), the floor of n / 2^30
Shr30(n) ==
    LET q == IF Len(n.mag) <= 2 THEN <<>> ELSE SubSeq(n.mag, 3, Len(n.mag))
        exact == \A i \in 1..Len(n.mag) : i <= 2 => n.mag[i] = 0
    IN  IF ~n.neg \/ exact
        THEN [neg |-> n.neg /\ q # <<>>, mag |-> q]
        ELSE [neg |-> TRUE, mag |-> Strip(AddMag(q, <<1>>, 0))]

IsDigit(c) == \E i \in 1..Len(Digits) : Digits[i] = c

DigitValue(c) == (CHOOSE i \in 1..Len(Digits) : Digits[i] = c) - 1

RECURSIVE ParseMag(_, _)
\* the digits left to right: acc * 10 + digit
ParseMag(s, acc) ==
    IF s = <<>> THEN acc
    ELSE ParseMag(Tail(s), Strip(MulSmall(acc, 10, DigitValue(Head(s)))))

\* int(text) as pydantic's lax integer validation reads it: optional sign,
\* then decimal digits only
Unsigned(s) == IF s # <<>> /\ Head(s) \in {"-", "+"} THEN Tail(s) ELSE s

AllDigits(body) == body # <<>> /\ \A i \in 1..Len(body) : IsDigit(body[i])

IsIntText(s) == AllDigits(Unsigned(s))

ParseInt(s) == Signed(Head(s) = "-", ParseMag(Unsigned(s), <<>>))

----------------------------------------------------------------------------
(* settings.py *)

\* class InstanceType(Enum): member name |-> value
InstanceType == [READONLY |-> "READONLY", RW |-> "R/W"]

InstanceTypeValues == {InstanceType[m] : m \in DOMAIN InstanceType}

\* InstanceType(value): the member with that value
InstanceTypeOf(value) == CHOOSE m \in DOMAIN InstanceType : InstanceType[m] = value

Fields == {"instance_type", "cache_size", "db_dir", "app_name",
           "app_version", "debug", "host", "port"}

\* the declared defaults of MiniAppSettings
Defaults ==
    [instance_type |-> "RW",
     cache_size    |-> IntOf(1),
     db_dir        |-> "/mini_app_data/",
     app_name      |-> "Mini App",
     app_version   |-> "0.1.0",
     debug         |-> TRUE,
     host          |-> "0.0.0.0",
     port          |-> IntOf(8080)]

\* the annotated type of each field
FieldType ==
    [instance_type |-> "InstanceType",
     cache_size    |-> "int",
     db_dir        |-> "str",
     app_name      |-> "str",
     app_version   |-> "str",
     debug         |-> "bool",
     host          |-> "str",
     port          |-> "int"]

\* Python values met during validation
PyNone == [t |-> "none"]

PyStr(s) == [t |-> "str", s |-> s]

PyEnum(m) == [t |-> "enum", m |-> m]

PyRaise(msg) == [t |-> "raise", msg |-> msg]

PyOk(v) == [t |-> "ok", v |-> v]

\* return None if v == "" else v
empty_str_to_none(v) ==
    IF v.t = "str" /\ v.s = <<>> THEN PyNone ELSE v

\* try: return InstanceType(value); except ValueError: raise ValueError(...)
InstanceTypeOrRaise(value) ==
    IF value \in InstanceTypeValues
    THEN PyEnum(InstanceTypeOf(value))
    ELSE PyRaise("Invalid instance type. Must be READONLY or R/W.")

\* the validator without .upper(): an exact match only
validate_instance_type_exact(v) ==
    IF v.t = "str" THEN InstanceTypeOrRaise(Join(v.s)) ELSE v

\* InstanceType(v.upper()) for a string; any other value as it is
validate_instance_type(v) ==
    IF v.t = "str" THEN InstanceTypeOrRaise(Join(Upper(v.s))) ELSE v

\* the next before validator, unless the one before it raised
ThenEmptyStrToNone(a) == IF a.t = "raise" THEN a ELSE empty_str_to_none(a)

\* The mode="before" validators of a field. They wrap the field's schema
\* in the order they are defined, so the one defined last runs first.
BeforeValidators(f, v) ==
    IF f = "instance_type"
    THEN ThenEmptyStrToNone(validate_instance_type(v))
    ELSE empty_str_to_none(v)

BoolTrue == {"1", "true", "t", "y", "yes", "on"}

BoolFalse == {"0", "false", "f", "n", "no", "off"}

\* a string validated against the field's annotated type
TextValidate(type, chars, text) ==
    CASE type = "InstanceType" ->
            IF text \in InstanceTypeValues THEN PyOk(InstanceTypeOf(text))
            ELSE PyRaise("Input should be 'READONLY' or 'R/W'")
      [] type = "int" ->
            IF IsIntText(chars) THEN PyOk(ParseInt(chars))
            ELSE PyRaise("Input should be a valid integer, unable to parse string as an integer")
      [] type = "str" -> PyOk(text)
      [] type = "bool" ->
            IF text \in BoolTrue THEN PyOk(TRUE)
            ELSE IF text \in BoolFalse THEN PyOk(FALSE)
            ELSE PyRaise("Input should be a valid boolean, unable to interpret input")

\* The validation of a value against the field's annotated type. None is
\* a value like any other here: the default is used only for a field that
\* has no value at all.
TypeValidate(type, v) ==
    IF v.t = "str"
    THEN TextValidate(type, v.s, Join(IF type = "bool" THEN Lower(v.s) ELSE v.s))
    ELSE IF v.t = "enum" /\ type = "InstanceType" THEN PyOk(v.m)
    ELSE IF type = "InstanceType"
         THEN PyRaise("Input should be 'READONLY' or 'R/W'")
    ELSE PyRaise("Input should be a valid " \o type)

\* the type's validation, unless a before validator raised
ThenTypeValidate(type, b) ==
    IF b.t = "raise" THEN b ELSE TypeValidate(type, b)

\* one field of MiniAppSettings(): the environment's text through the
\* before validators and the type, or the default when the variable is unset
FieldValue(f, e) ==
    IF f \notin DOMAIN e THEN PyOk(Defaults[f])
    ELSE ThenTypeValidate(FieldType[f], BeforeValidators(f, PyStr(e[f])))

\* the settings, or the ValidationError naming each field that failed
Validated(r) ==
    IF \A f \in Fields : r[f].t = "ok"
    THEN [ok |-> TRUE, value |-> [f \in Fields |-> r[f].v]]
    ELSE [ok |-> FALSE,
          errors |-> [f \in {x \in Fields : r[x].t = "raise"} |-> r[f].msg]]

\* MiniAppSettings()
MiniAppSettings(e) == Validated([f \in Fields |-> FieldValue(f, e)])

----------------------------------------------------------------------------
(* config.py *)

ORG_NAME == "miniapp"

PROJECT_NAME == "mini_app"

ENV == "dev"

DATA_PREFIX == "/" \o ORG_NAME \o "/" \o PROJECT_NAME \o "/" \o ENV \o "/data"

AutocommitInterval == 2000

\* what a call that built the settings leaves: the value cached unless
\* MiniAppSettings() raised
Built(cache, r) ==
    [cache |-> IF r.ok THEN <<r.value>> ELSE cache, reads |-> 1, res |-> r]

\* get_settings with the lru_cache left out: every call builds the settings anew
get_settings_uncached(cache, e) == Built(cache, MiniAppSettings(e))

\* @lru_cache() get_settings(): the cached value when there is one; else
\* MiniAppSettings() is built from the environment and, unless it raised,
\* cached. Gives the cache after the call, the reads of the environment
\* and the result.
get_settings(cache, e) ==
    IF cache # <<>>
    THEN [cache |-> cache, reads |-> 0,
          res |-> [ok |-> TRUE, value |-> cache[1]]]
    ELSE Built(cache, MiniAppSettings(e))

\* settings.cache_size << 30 in a 32-bit register
cache_size_bytes_wrap32(settings) == Shl30Wrap32(settings.cache_size)

\* settings.cache_size << 30
cache_size_bytes(settings) == Shl30(settings.cache_size)

\* the dictionary get_dbzero_config returns for the settings
dbzero_config(settings) ==
    [prefix              |-> DATA_PREFIX,
     autocommit          |-> TRUE,
     autocommit_interval |-> AutocommitInterval,
     cache_size          |-> cache_size_bytes(settings),
     db0_dir             |-> settings.db_dir]

\* the line get_dbzero_config prints
config_line(settings) ==
    "Cache size set to " \o Decimal(cache_size_bytes(settings))
        \o " bytes (" \o Decimal(settings.cache_size) \o " GiB)"

\* get_dbzero_config() after its get_settings call g: the line it prints
\* and the dictionary it returns
config_with(g) ==
    IF ~g.res.ok THEN [g |-> g, ok |-> FALSE]
    ELSE [g |-> g, ok |-> TRUE, line |-> config_line(g.res.value),
          ret |-> dbzero_config(g.res.value)]

get_dbzero_config(cache, e) == config_with(get_settings(cache, e))

----------------------------------------------------------------------------
(* dbzero_ce.Connection, the storage engine's handle *)

ConnStates == {"Uninitialized", "Open", "Closed"}

\* what Connection.setup may do: open the handle, raise, or return with
\* the handle not live
SetupOutcomes == {"ok", "raise", "not_live"}

\* what Connection.close may do: close the handle, or raise with the
\* handle left open or closed
CloseOutcomes == {"ok", "raise_open", "raise_closed"}

AfterSetup(c, o) == IF o = "ok" THEN "Open" ELSE c

AfterClose(c, o) == IF o = "raise_open" THEN c ELSE "Closed"

\* Connection.assure_initialized() returns when the handle is open and
\* raises otherwise
assure_initialized(c) == c = "Open"

\* str(e) of what the engine raises
EngineError(c, o) ==
    IF o = "raise" THEN "setup failed"
    ELSE IF o \in {"raise_open", "raise_closed"} THEN "close failed"
    ELSE IF c = "Closed" THEN "connection is closed"
    ELSE "connection is not initialized"

----------------------------------------------------------------------------
(* main.py *)

NoError == [type |-> "none"]

ValidationError(errors) == [type |-> "ValidationError", errors |-> errors]

EngineException(msg) == [type |-> "EngineError", msg |-> msg]

RECURSIVE SumReads(_)
SumReads(gs) == IF gs = <<>> THEN 0 ELSE Head(gs).reads + SumReads(Tail(gs))

\* the bookkeeping of the get_settings calls gs made by one step, in order
Tracked(gs) ==
    /\ settingsCache' = IF gs = <<>> THEN settingsCache ELSE gs[Len(gs)].cache
    /\ envReads' = envReads + SumReads(gs)
    /\ got' = got \cup {gs[i].res.value : i \in {j \in 1..Len(gs) : gs[j].res.ok}}
    /\ calls' = calls + Cardinality({j \in 1..Len(gs) : gs[j].res.ok})
    /\ \E now \in {MiniAppSettings(env)} :
           stale' = stale + Cardinality({j \in 1..Len(gs) :
                        gs[j].res.ok /\ (~now.ok \/ now.value # gs[j].res.value)})

\* the keyword arguments with read_write always set
setup_kwargs_always_rw(settings, cfg) ==
    [read_write |-> TRUE] @@ cfg

\* Connection.setup(read_write=(settings.instance_type == InstanceType.RW), **config)
setup_kwargs(settings, cfg) ==
    [read_write |-> (settings.instance_type = "RW")] @@ cfg

\* the try block without the assure_initialized call
startup_failed_unchecked(c, o) == o = "raise"

\* the try block of the startup: Connection.setup, then
\* Connection.assure_initialized; either may raise
startup_failed(c, o) ==
    o = "raise" \/ ~assure_initialized(AfterSetup(c, o))

\* the except block without its raise: the lifespan goes on to the yield
startup_exit_swallow(failed) == "yield"

\* the except block prints and re-raises; without an exception the
\* lifespan reaches the yield
startup_exit(failed) == IF failed THEN "raise" ELSE "yield"

\* the except block of the shutdown with a raise added
shutdown_exit_reraise(failed, msg) ==
    IF failed THEN EngineException(msg) ELSE NoError

\* the except block of the shutdown prints and does not raise
shutdown_exit(failed, msg) == NoError

\* the body health_check returns
healthy_body(settings) ==
    [status        |-> "healthy",
     app_name      |-> settings.app_name,
     version       |-> settings.app_version,
     dbzero_status |-> "connected",
     instance_type |-> InstanceType[settings.instance_type]]

\* health_check answering 200 whatever assure_initialized does
health_check_unchecked(c, g) ==
    [g |-> <<g>>, resp |-> [status |-> 200, body |-> healthy_body(g.res.value)]]

\* GET /healthcheck, where g is what its get_settings call gives: the
\* get_settings calls made and the response. Whatever the try block
\* raises becomes a 503.
health_check(c, g) ==
    IF ~assure_initialized(c)
    THEN [g |-> <<>>,
          resp |-> [status |-> 503,
                    body |-> [detail |-> "Health check failed: "
                                         \o EngineError(c, "none")]]]
    ELSE IF ~g.res.ok
    THEN [g |-> <<g>>,
          resp |-> [status |-> 503,
                    body |-> [detail |-> "Health check failed: "
                                         \o "validation error"]]]
    ELSE [g |-> <<g>>,
          resp |-> [status |-> 200, body |-> healthy_body(g.res.value)]]

\* GET /, where g is what its get_settings call gives
root(g) ==
    IF ~g.res.ok
    THEN [g |-> <<g>>,
          resp |-> [status |-> 500,
                    body |-> [detail |-> "Internal Server Error"]]]
    ELSE [g |-> <<g>>,
          resp |-> [status |-> 200,
                    body |-> [message |-> "Welcome to "
                                          \o g.res.value.app_name \o "!",
                              version |-> g.res.value.app_version,
                              docs |-> "/docs",
                              healthcheck |-> "/healthcheck"]]]

Paths == {"/", "/healthcheck"}

\* the handler of a path, run on what get_settings gives now
Handler(path, g) ==
    IF path = "/healthcheck" THEN health_check(conn, g) ELSE root(g)

\* the handler of a path runs to its end (no await in either) and the
\* response is sent; "saw" is the handle's state during the call
Respond(path) ==
    \E h \in {Handler(path, get_settings(settingsCache, env))} :
        /\ responses' = Append(responses,
                               [path |-> path, saw |-> conn,
                                status |-> h.resp.status,
                                body |-> h.resp.body])
        /\ Tracked(h.g)

\* app = create_app(), at import: the first get_settings call. A
\* ValidationError ends the process before the server exists.
CreateApp ==
    /\ pc = "import"
    /\ \E g \in {get_settings(settingsCache, env)} :
           /\ Tracked(<<g>>)
           /\ pc' = IF g.res.ok THEN "created" ELSE "crashed"
           /\ raised' = IF g.res.ok THEN raised
                        ELSE ValidationError(g.res.errors)
    /\ UNCHANGED <<env, envChanges, conn, accepting, inflight, responses,
                   log, setupArgs, closeCalls, faults, config>>

\* the startup once the settings s and the config c are there
StartupWith(o, s, c, failed, exit, msg) ==
    /\ Tracked(<<s, c.g>>)
    /\ config' = <<c.ret>>
    /\ setupArgs' = Append(setupArgs, setup_kwargs(s.res.value, c.ret))
    /\ conn' = AfterSetup(conn, o)
    /\ faults' = [faults EXCEPT !.setup = o]
    /\ log' = log \o <<"Starting Mini App...", c.line>> \o
          (IF failed
           THEN <<"Failed to initialize DBZero: " \o msg>>
           ELSE <<"DBZero connection initialized successfully!",
                  "Instance type: " \o InstanceType[s.res.value.instance_type],
                  "Database directory: " \o s.res.value.db_dir>>)
    /\ raised' = IF exit = "raise" THEN EngineException(msg) ELSE raised
    /\ pc' = IF exit = "raise" THEN "aborted" ELSE "serving"
    /\ accepting' = (exit = "yield")

\* get_settings or get_dbzero_config raised: the exception leaves the
\* lifespan before its try block
StartupRaised(s, c) ==
    /\ Tracked(<<s, c.g>>)
    /\ pc' = "aborted"
    /\ raised' = ValidationError(IF s.res.ok THEN c.g.res.errors
                                 ELSE s.res.errors)
    /\ log' = Append(log, "Starting Mini App...")
    /\ UNCHANGED <<conn, accepting, setupArgs, faults, config>>

\* lifespan up to the yield, with the engine's outcome o of Connection.setup
LifespanStartup(o) ==
    /\ pc = "created"
    /\ \E s \in {get_settings(settingsCache, env)} :
       \E c \in {get_dbzero_config(s.cache, env)} :
       \E failed \in {startup_failed(conn, o)} :
           IF ~s.res.ok \/ ~c.ok
           THEN StartupRaised(s, c)
           ELSE StartupWith(o, s, c, failed, startup_exit(failed),
                            EngineError(AfterSetup(conn, o), o))
    /\ UNCHANGED <<env, envChanges, inflight, responses, closeCalls>>

\* lifespan after the yield, with the engine's outcome o of Connection.close
LifespanShutdown(o) ==
    /\ pc = "serving"
    /\ conn' = AfterClose(conn, o)
    /\ closeCalls' = closeCalls + 1
    /\ faults' = [faults EXCEPT !.close = o]
    /\ raised' = shutdown_exit(o # "ok", EngineError(conn, o))
    /\ log' = log \o <<"Shutting down Mini App...">> \o
          (IF o # "ok" THEN <<"Error during shutdown: " \o EngineError(conn, o)>>
           ELSE <<"DBZero connection closed successfully!">>) \o
          (IF raised'.type = "none" THEN <<"Shutdown complete!">> ELSE <<>>)
    /\ pc' = "done"
    /\ accepting' = FALSE
    /\ UNCHANGED <<env, settingsCache, envReads, got, calls, stale, envChanges,
                   inflight, responses, setupArgs, config>>

----------------------------------------------------------------------------
(* The HTTP layer (uvicorn.run): requests are accepted between the         *)
(* lifespan's startup and the server's stop; the lifespan's shutdown runs  *)
(* when no accepted request is left.                                       *)

Accept(path) ==
    /\ pc = "serving"
    /\ accepting
    /\ Len(inflight) < MaxInflight
    /\ Len(inflight) + Len(responses) < MaxRequests
    /\ inflight' = Append(inflight, path)
    /\ UNCHANGED <<env, settingsCache, envReads, got, calls, stale, envChanges,
                   conn, pc, accepting, responses, log, raised, setupArgs,
                   closeCalls, faults, config>>

Handle ==
    /\ inflight # <<>>
    /\ Respond(Head(inflight))
    /\ inflight' = Tail(inflight)
    /\ UNCHANGED <<env, envChanges, conn, pc, accepting, log, raised,
                   setupArgs, closeCalls, faults, config>>

ServerStop ==
    /\ pc = "serving"
    /\ accepting
    /\ accepting' = FALSE
    /\ UNCHANGED <<env, settingsCache, envReads, got, calls, stale, envChanges,
                   conn, pc, inflight, responses, log, raised, setupArgs,
                   closeCalls, faults, config>>

ServerShutdown(o) ==
    /\ ~accepting
    /\ inflight = <<>>
    /\ LifespanShutdown(o)

----------------------------------------------------------------------------
(* The environment *)

StringsUpTo(A, n) == UNION {[1..k -> A] : k \in 0..n}

\* every casing of a word
Casings(w) ==
    {[i \in 1..Len(w) |-> IF i \in S THEN UpperChar(w[i]) ELSE LowerChar(w[i])] :
        S \in SUBSET (1..Len(w))}

TextReadonly == <<"r","e","a","d","o","n","l","y">>

TextRW == <<"r","/","w">>

TextBig == <<"1","7","1","7","9","8","6","9","1","8","4">>

\* the values tried for INSTANCE_TYPE
InstanceTexts ==
    StringsUpTo({"r", "R", "/", "w", "W", "x"}, MaxLen)
        \cup Casings(TextReadonly) \cup Casings(TextRW)
        \cup {TextReadonly \o <<" ">>, <<"r","w">>,
              <<"R","E","A","D","_","W","R","I","T","E">>}

\* the values tried for CACHE_SIZE
CacheTexts ==
    StringsUpTo({"0", "2", "9", "-", "x"}, MaxLen)
        \cup {<<"1">>, <<"4">>, TextBig, <<"-">> \o TextBig}

\* the values tried for the other variables
OtherTexts ==
    [db_dir      |-> {<<>>, <<"/","d">>},
     app_name    |-> {<<>>, <<"A">>},
     app_version |-> {<<>>, <<"9">>},
     debug       |-> {<<>>, <<"0">>, <<"T","r","u","e">>, <<"x">>},
     host        |-> {<<>>, <<"h">>},
     port        |-> {<<>>, <<"8","0">>, <<"x">>}]

\* the environments the loader is tried on: one variable set to each of
\* its values, any set of variables set to the empty string, and pairs of
\* INSTANCE_TYPE and CACHE_SIZE
LoaderEnvs ==
    {("instance_type" :> t) : t \in InstanceTexts}
        \cup {("cache_size" :> t) : t \in CacheTexts}
        \cup UNION {{(f :> t) : t \in OtherTexts[f]} : f \in DOMAIN OtherTexts}
        \cup {[f \in S |-> <<>>] : S \in SUBSET Fields}
        \cup {("instance_type" :> t) @@ ("cache_size" :> c) :
                t \in Casings(TextRW) \cup {Upper(TextReadonly), TextReadonly},
                c \in {<<"0">>, <<"2">>, <<"4">>, TextBig}}

\* the values the environment of a served process takes
ProcessTexts ==
    [instance_type |-> {TextRW, Upper(TextReadonly), <<"x">>},
     cache_size    |-> {<<"2">>},
     db_dir        |-> {<<"/","d">>}]

ProcessEnvs ==
    {e \in UNION {[D -> UNION {ProcessTexts[f] : f \in DOMAIN ProcessTexts}] :
                    D \in SUBSET DOMAIN ProcessTexts} :
        \A f \in DOMAIN e : e[f] \in ProcessTexts[f]}

\* os.environ[name] = text, while the process lives
EnvSet(name, text) ==
    /\ pc \notin {"crashed", "aborted", "done"}
    /\ envChanges < MaxEnvChanges
    /\ (IF name \in DOMAIN env THEN env[name] # text ELSE TRUE)
    /\ env' = (name :> text) @@ env
    /\ envChanges' = envChanges + 1
    /\ UNCHANGED <<settingsCache, envReads, got, calls, stale, conn, pc, accepting,
                   inflight, responses, log, raised, setupArgs, closeCalls,
                   faults, config>>

\* del os.environ[name]
EnvUnset(name) ==
    /\ pc \notin {"crashed", "aborted", "done"}
    /\ envChanges < MaxEnvChanges
    /\ name \in DOMAIN env
    /\ env' = [f \in DOMAIN env \ {name} |-> env[f]]
    /\ envChanges' = envChanges + 1
    /\ UNCHANGED <<settingsCache, envReads, got, calls, stale, conn, pc, accepting,
                   inflight, responses, log, raised, setupArgs, closeCalls,
                   faults, config>>

EnvChange ==
    \E name \in DOMAIN ProcessTexts :
        \/ \E text \in ProcessTexts[name] : EnvSet(name, text)
        \/ EnvUnset(name)

----------------------------------------------------------------------------
(* Specifications *)

InitWith(envs) ==
    /\ env \in envs
    /\ settingsCache = <<>>
    /\ envReads = 0
    /\ got = {}
    /\ calls = 0
    /\ stale = 0
    /\ envChanges = 0
    /\ conn = "Uninitialized"
    /\ pc = "import"
    /\ accepting = FALSE
    /\ inflight = <<>>
    /\ responses = <<>>
    /\ log = <<>>
    /\ raised = NoError
    /\ setupArgs = <<>>
    /\ closeCalls = 0
    /\ faults = [setup |-> "none", close |-> "none"]
    /\ config = <<>>

\* the process run by the server
Init == InitWith(ProcessEnvs)

Next ==
    \/ CreateApp
    \/ \E o \in SetupOutcomes : LifespanStartup(o)
    \/ \E path \in Paths : Accept(path)
    \/ Handle
    \/ ServerStop
    \/ \E o \in CloseOutcomes : ServerShutdown(o)
    \/ EnvChange

Spec == Init /\ [][Next]_vars

\* the handlers called without the server: before the lifespan is
\* entered, inside it and after it is left
DirectCall(path) ==
    /\ pc \notin {"import", "crashed"}
    /\ Len(responses) < MaxRequests
    /\ Respond(path)
    /\ UNCHANGED <<env, envChanges, conn, pc, accepting, inflight, log,
                   raised, setupArgs, closeCalls, faults, config>>

NextDirect ==
    \/ CreateApp
    \/ \E o \in SetupOutcomes : LifespanStartup(o)
    \/ \E path \in Paths : DirectCall(path)
    \/ \E o \in CloseOutcomes : LifespanShutdown(o)
    \/ EnvChange

SpecDirect == Init /\ [][NextDirect]_vars

\* the settings loader and the config adapter over many environments
InitLoader == InitWith(LoaderEnvs)

NextLoader ==
    \/ CreateApp
    \/ \E o \in SetupOutcomes : LifespanStartup(o)

SpecLoader == InitLoader /\ [][NextLoader]_vars

----------------------------------------------------------------------------
(* Claims *)

\* C1: every request the HTTP layer handles sees the handle Open. While
\* requests are accepted or waiting to be handled the lifespan is at its
\* yield, Connection.setup has succeeded and Connection.close has not been
\* called; close is called only once no request is accepted or waiting.
C1_RequestsSeeOpen ==
    /\ \A i \in 1..Len(responses) : responses[i].saw = "Open"
    /\ (accepting \/ inflight # <<>>) =>
          /\ pc = "serving"
          /\ conn = "Open"
          /\ faults.setup = "ok"
          /\ closeCalls = 0
    /\ closeCalls > 0 => (~accepting /\ inflight = <<>>)

\* requests were handled, the server stopped and the handle was closed
C1_Witness ==
    /\ Len(responses) >= 2
    /\ pc = "done"
    /\ conn = "Closed"

\* C2: when Connection.setup raises, or the assure_initialized call after
\* it does, the lifespan prints the failure and raises it: the yield is
\* not reached, no request is accepted or handled, and setup is not
\* called again.
C2_StartupFailureAborts ==
    faults.setup \in {"raise", "not_live"} =>
        /\ pc = "aborted"
        /\ raised.type = "EngineError"
        /\ log[Len(log)] = "Failed to initialize DBZero: " \o raised.msg
        /\ \A i \in 1..Len(log) :
              log[i] # "DBZero connection initialized successfully!"
        /\ ~accepting
        /\ inflight = <<>>
        /\ responses = <<>>
        /\ Len(setupArgs) = 1
        /\ closeCalls = 0

\* the failure came from assure_initialized, after a setup that returned
C2_Witness ==
    /\ faults.setup = "not_live"
    /\ pc = "aborted"
    /\ raised.type = "EngineError"

\* C3: when Connection.close raises, the lifespan prints the error and
\* does not raise: no exception leaves the shutdown and its last line,
\* "Shutdown complete!", is printed, as it is when close succeeds.
C3_CloseFailureSwallowed ==
    /\ faults.close \in {"raise_open", "raise_closed"} =>
          /\ pc = "done"
          /\ raised.type = "none"
          /\ log[Len(log) - 1] = "Error during shutdown: close failed"
          /\ log[Len(log)] = "Shutdown complete!"
    /\ pc = "done" =>
          /\ raised.type = "none"
          /\ log[Len(log)] = "Shutdown complete!"

\* close raised and the shutdown still completed
C3_Witness ==
    /\ faults.close = "raise_open"
    /\ pc = "done"
    /\ conn = "Open"

\* C4: GET /healthcheck answers by the handle's state during the call:
\* Open gives 200 with status "healthy", dbzero_status "connected" and the
\* settings' app name, version and instance type; Uninitialized or Closed
\* gives 503 with a detail that holds the reason. The call changes neither
\* the handle nor the process, so a later call can succeed.
C4_HealthCheckByState ==
    \A i \in 1..Len(responses) :
        responses[i].path = "/healthcheck" =>
            IF responses[i].saw = "Open"
            THEN /\ responses[i].status = 200
                 /\ responses[i].body.status = "healthy"
                 /\ responses[i].body.dbzero_status = "connected"
                 /\ responses[i].body.app_name = settingsCache[1].app_name
                 /\ responses[i].body.version = settingsCache[1].app_version
                 /\ responses[i].body.instance_type =
                        InstanceType[settingsCache[1].instance_type]
            ELSE /\ responses[i].status = 503
                 /\ responses[i].body.detail = "Health check failed: " \o
                        (IF responses[i].saw = "Closed"
                         THEN "connection is closed"
                         ELSE "connection is not initialized")

\* a check before the startup answered 503 and a later one 200
C4_Witness ==
    /\ Len(responses) >= 2
    /\ responses[1].path = "/healthcheck"
    /\ responses[1].status = 503
    /\ responses[2].path = "/healthcheck"
    /\ responses[2].status = 200

\* a check after the shutdown answered 503
C4_WitnessClosed ==
    /\ Len(responses) >= 1
    /\ responses[Len(responses)].path = "/healthcheck"
    /\ responses[Len(responses)].saw = "Closed"
    /\ responses[Len(responses)].status = 503

\* C5: for every variable of the environment set to the empty string, the
\* settings are built and the field has its declared default.
C5_EmptyStringGivesDefault ==
    pc # "import" =>
        \A f \in DOMAIN env :
            env[f] = <<>> =>
                /\ pc # "crashed"
                /\ settingsCache # <<>>
                /\ settingsCache[1][f] = Defaults[f]

\* C6: INSTANCE_TYPE is matched whatever its casing: every casing of
\* "readonly" gives READONLY and every casing of "r/w" gives RW; any other
\* text makes MiniAppSettings() raise with the message that names the two
\* values; the instance type of built settings is one of the two members.
C6_InstanceTypeCaseInsensitive ==
    /\ settingsCache # <<>> =>
          settingsCache[1].instance_type \in {"READONLY", "RW"}
    /\ (pc # "import" /\ "instance_type" \in DOMAIN env) =>
          IF env["instance_type"] \in Casings(TextReadonly)
          THEN /\ pc = "crashed" => "instance_type" \notin DOMAIN raised.errors
               /\ settingsCache # <<>> =>
                     settingsCache[1].instance_type = "READONLY"
          ELSE IF env["instance_type"] \in Casings(TextRW)
          THEN /\ pc = "crashed" => "instance_type" \notin DOMAIN raised.errors
               /\ settingsCache # <<>> =>
                     settingsCache[1].instance_type = "RW"
          ELSE /\ pc = "crashed"
               /\ settingsCache = <<>>
               /\ raised.type = "ValidationError"
               /\ "instance_type" \in DOMAIN raised.errors
               /\ raised.errors["instance_type"] =
                      "Invalid instance type. Must be READONLY or R/W."

\* a mixed casing of "readonly" was read as READONLY
C6_Witness ==
    /\ pc = "created"
    /\ "instance_type" \in DOMAIN env
    /\ env["instance_type"] = <<"R","e","a","D","o","n","l","y">>
    /\ settingsCache[1].instance_type = "READONLY"

\* a text that is no casing of either value was refused
C6_WitnessRefused ==
    /\ pc = "crashed"
    /\ "instance_type" \in DOMAIN env
    /\ env["instance_type"] = <<"r","w">>

SetupFieldsClaimed ==
    {"prefix", "autocommit", "autocommit_interval", "cache_size", "db_dir",
     "read_write"}

SetupFields ==
    {"prefix", "autocommit", "autocommit_interval", "cache_size", "db0_dir",
     "read_write"}

\* C7 as stated: the keyword arguments of Connection.setup are exactly
\* prefix, autocommit, autocommit_interval, cache_size, db_dir and
\* read_write, with the fixed values, db_dir the settings' directory and
\* read_write true exactly for RW.
C7_SetupArgsAsStated ==
    \A i \in 1..Len(setupArgs) :
        /\ DOMAIN setupArgs[i] = SetupFieldsClaimed
        /\ setupArgs[i].prefix = "/miniapp/mini_app/dev/data"
        /\ setupArgs[i].autocommit = TRUE
        /\ setupArgs[i].autocommit_interval = 2000
        /\ setupArgs[i].db_dir = settingsCache[1].db_dir
        /\ setupArgs[i].read_write = (settingsCache[1].instance_type = "RW")

\* C7 (amended): the same, with the directory under the key db0_dir.
C7_SetupArgs ==
    \A i \in 1..Len(setupArgs) :
        /\ DOMAIN setupArgs[i] = SetupFields
        /\ setupArgs[i].prefix = "/miniapp/mini_app/dev/data"
        /\ setupArgs[i].autocommit = TRUE
        /\ setupArgs[i].autocommit_interval = 2000
        /\ setupArgs[i].db0_dir = settingsCache[1].db_dir
        /\ setupArgs[i].read_write = (settingsCache[1].instance_type = "RW")

\* INSTANCE_TYPE=READONLY, CACHE_SIZE=2: read_write is false and the
\* cache size is 2147483648
C7_Witness ==
    /\ Len(setupArgs) = 1
    /\ DOMAIN env = {"instance_type", "cache_size"}
    /\ env["instance_type"] = Upper(TextReadonly)
    /\ env["cache_size"] = <<"2">>
    /\ setupArgs[1].read_write = FALSE
    /\ Decimal(setupArgs[1].cache_size) = "2147483648"

\* C8: for a cache size of g GiB, g >= 0, the config's cache_size is
\* g * 2^30 exactly, and shifting it right by 30 bits gives g back; for
\* g = 2 it is 2147483648.
C8_CacheSizeExact ==
    (config # <<>> /\ ~settingsCache[1].cache_size.neg) =>
        /\ config[1].cache_size = Mul(settingsCache[1].cache_size, TwoTo30)
        /\ Shr30(config[1].cache_size) = settingsCache[1].cache_size
        /\ Decimal(settingsCache[1].cache_size) = "2" =>
              Decimal(config[1].cache_size) = "2147483648"

\* g = 2^34, whose byte count 2^64 does not fit 64 bits
C8_Witness ==
    /\ config # <<>>
    /\ Decimal(settingsCache[1].cache_size) = "17179869184"
    /\ Decimal(config[1].cache_size) = "18446744073709551616"

\* C9: get_settings reads the environment once; every later call returns
\* the value of the first, whatever the environment has become.
C9_SettingsMemoized ==
    /\ envReads <= 1
    /\ Cardinality(got) <= 1
    /\ calls > 0 => (settingsCache # <<>> /\ got = {settingsCache[1]})

\* a call returned the first value although the environment had changed
C9_Witness ==
    /\ stale >= 1
    /\ calls >= 2
    /\ envChanges >= 1
    /\ Cardinality(got) = 1

\* C10 as stated: the handle goes Uninitialized -> Open -> Closed only,
\* and in every run of the lifespan Connection.setup and Connection.close
\* are each called exactly once.
C10_ExactlyOnceEveryRun ==
    /\ Len(setupArgs) <= 1
    /\ closeCalls <= 1
    /\ conn = "Closed" => closeCalls = 1
    /\ pc \in {"done", "aborted"} => (Len(setupArgs) = 1 /\ closeCalls = 1)

\* C10 (amended): the handle goes Uninitialized -> Open -> Closed only
\* and never leaves Closed. Connection.setup and Connection.close are each
\* called at most once, close only after a setup that succeeded; both are
\* called exactly once in a run whose startup succeeds and that shuts
\* down, and close is never called in a run whose startup fails.
C10_Lifecycle ==
    /\ [](/\ Len(setupArgs) <= 1
          /\ closeCalls <= 1
          /\ closeCalls = 1 => (Len(setupArgs) = 1 /\ faults.setup = "ok")
          /\ pc \in {"serving", "done"} =>
                (Len(setupArgs) = 1 /\ faults.setup = "ok")
          /\ pc = "done" => closeCalls = 1
          /\ pc = "aborted" => closeCalls = 0
          /\ conn = "Uninitialized" => closeCalls = 0
          /\ conn = "Closed" => closeCalls = 1)
    /\ [][conn' # conn =>
            <<conn, conn'>> \in {<<"Uninitialized", "Open">>,
                                 <<"Open", "Closed">>}]_vars

\* the handle was opened and then closed
C10_Witness ==
    /\ pc = "done"
    /\ conn = "Closed"
    /\ Len(setupArgs) = 1
    /\ closeCalls = 1

============================================================================
